---- MODULE Spec2Model ----
(***************************************************************************)
(* Model of turbopack-ecmascript's ESM reference handling:                 *)
(*   references/esm/base.rs    ReferencedAsset, EsmAssetReference,         *)
(*                             insert_hoisted_stmt                         *)
(*   references/async_module.rs AsyncModule, OptionAsyncModule,            *)
(*                             add_async_dependency_handler                *)
(*                                                                         *)
(* Rust strings that are built with format! are sequences of their pieces  *)
(* (<<"external ", "fs">>); Option<T> is [some |-> FALSE] or               *)
(* [some |-> TRUE, value |-> v]; Result<T> is [ok |-> TRUE, ...] or        *)
(* [ok |-> FALSE, err |-> e].                                              *)
(***************************************************************************)
EXTENDS Naturals, Sequences, FiniteSets, TLC

VARIABLES
    call,       \* the last operation run: its name, its arguments, its result
    program,    \* the swc Program the visitors are run on: [kind, body]
    original,   \* the body of that program as parsed
    inserted    \* every stmt handed to insert_hoisted_stmt, in call order

vars == <<call, program, original, inserted>>

-----------------------------------------------------------------------------
(* Bounds of the model *)

MaxEntries == 2     \* primary entries of one resolve result
MaxRefs == 3        \* references of one AsyncModule
MaxInserts == 4     \* insert_hoisted_stmt calls on one program
MaxOriginal == 2    \* items of a program body as parsed

-----------------------------------------------------------------------------
(* Generic helpers *)

None == [some |-> FALSE]
Some(v) == [some |-> TRUE, value |-> v]

Ok(v) == [ok |-> TRUE, value |-> v]
Err(e) == [ok |-> FALSE, err |-> e]

SeqsUpTo(S, n) == UNION {[1..k -> S] : k \in 0..n}

Range(s) == {s[i] : i \in DOMAIN s}

\* Vec::insert(index, element) with a 0-based index
VecInsert(s, index, e) ==
    SubSeq(s, 1, index) \o <<e>> \o SubSeq(s, index + 1, Len(s))

\* Iterator::position: the 0-based index of the first element satisfying
\* Test, as an Option
position(s, Test(_)) ==
    LET hits == {i \in 1..Len(s) : Test(s[i])} IN
    IF hits = {} THEN None
    ELSE Some((CHOOSE i \in hits : \A j \in hits : i <= j) - 1)

\* Iterator::any
any(s, Test(_)) == \E i \in 1..Len(s) : Test(s[i])

\* IndexSet::from_iter: every element once, at the place of its first
\* occurrence
RECURSIVE IndexSetInto(_, _)
IndexSetInto(acc, s) ==
    IF s = <<>> THEN acc
    ELSE IF Head(s) \in Range(acc) THEN IndexSetInto(acc, Tail(s))
    ELSE IndexSetInto(Append(acc, Head(s)), Tail(s))

IndexSet_from_iter(s) == IndexSetInto(<<>>, s)

-----------------------------------------------------------------------------
(* The collaborators' values *)

\* Import specifiers
Requests == {"./a", "fs"}

\* Module handles, named by the string of their ident
Modules == {"/a.js", "/b.js", "/style.css"}

\* The modules that downcast to EcmascriptChunkPlaceable
Placeable == {"/a.js", "/b.js"}

\* ModuleResolveResultItem
ItemModule(m) == [item |-> "Module", module |-> m]
ItemExternal(r) == [item |-> "OriginalReferenceTypeExternal", request |-> r]
ItemIgnore == [item |-> "Ignore"]
ItemUnresolveable == [item |-> "Unresolveable"]

ResolveItems ==
    {ItemModule(m) : m \in Modules}
    \cup {ItemExternal(r) : r \in Requests}
    \cup {ItemIgnore, ItemUnresolveable}

\* ModuleResolveResult.primary, in the resolver's order (the keys are not
\* read by this code)
ResolveResults == SeqsUpTo(ResolveItems, MaxEntries)

\* ModuleResolveResult::is_unresolveable_ref
is_unresolveable_ref(resolved) == resolved = <<>>

\* Vc::try_resolve_downcast::<Box<dyn EcmascriptChunkPlaceable>>
try_resolve_downcast(module) ==
    IF module \in Placeable THEN Some(module) ELSE None

\* magic_identifier::mangle
mangle(content) == <<"__TURBOPACK__">> \o content \o <<"__">>

\* references::util::request_to_string
request_to_string(request) == request

\* ModuleId
ModuleIdString(s) == [id |-> "String", s |-> s]
ModuleIdNumber(n) == [id |-> "Number", n |-> n]

\* The ids the chunking context gives the chunk items: one of each kind
ChunkItemIds ==
    [m \in Placeable |->
        IF m = "/a.js" THEN ModuleIdNumber(7) ELSE ModuleIdString(m)]

\* The chunking context: the environment's capability and the ids of the
\* chunk items
ChunkingContexts ==
    [supports_commonjs_externals : BOOLEAN, ids : {ChunkItemIds}]

\* ChunkableModule::as_chunk_item
as_chunk_item(asset) == [chunk_item |-> asset]

\* ChunkItem::id under the chunking context
chunk_item_id(chunking_context, chunk_item) ==
    chunking_context.ids[chunk_item.chunk_item]

-----------------------------------------------------------------------------
(* swc AST *)

LitStr(s) == [lit |-> "Str", str |-> s]
LitNum(n) == [lit |-> "Num", num |-> n]
LitBool(b) == [lit |-> "Bool", bool |-> b]

ExprStmt(expr) == [type |-> "Expr", expr |-> expr]

\* var <name> = <callee>(<args>);
VarCallStmt(name, callee, args) ==
    [type |-> "Var", name |-> name, callee |-> callee, args |-> args]

\* references::util::throw_module_not_found_expr
throw_module_not_found_expr(request) ==
    [throw |-> "Cannot find module", request |-> request]

ModuleItemStmt(stmt) == [item |-> "Stmt", stmt |-> stmt]
ModuleItemDecl(decl) == [item |-> "ModuleDecl", decl |-> decl]

ProgramModule(body) == [kind |-> "Module", body |-> body]
ProgramScript(body) == [kind |-> "Script", body |-> body]

-----------------------------------------------------------------------------
(* references/esm/base.rs *)

ReferencedAssetSome(asset) == [asset |-> "Some", placeable |-> asset]
ReferencedAssetExternal(request) ==
    [asset |-> "OriginalReferenceTypeExternal", request |-> request]
ReferencedAssetNone == [asset |-> "None"]

get_ident_from_placeable(asset) == mangle(<<"imported module ", asset>>)

get_ident(referenced_asset) ==
    CASE referenced_asset.asset = "Some" ->
            Some(get_ident_from_placeable(referenced_asset.placeable))
      [] referenced_asset.asset = "OriginalReferenceTypeExternal" ->
            Some(mangle(<<"external ", referenced_asset.request>>))
      [] OTHER -> None

\* from_resolve_result taking every module for a placeable one
RECURSIVE from_resolve_result_no_downcast(_)
from_resolve_result_no_downcast(primary) ==
    IF primary = <<>> THEN ReferencedAssetNone
    ELSE LET result == Head(primary) IN
         IF result.item = "OriginalReferenceTypeExternal"
         THEN ReferencedAssetExternal(result.request)
         ELSE IF result.item = "Module"
         THEN ReferencedAssetSome(result.module)
         ELSE from_resolve_result_no_downcast(Tail(primary))

RECURSIVE from_resolve_result(_)
from_resolve_result(primary) ==
    IF primary = <<>> THEN ReferencedAssetNone
    ELSE LET result == Head(primary) IN
         IF result.item = "OriginalReferenceTypeExternal"
         THEN ReferencedAssetExternal(result.request)
         ELSE IF result.item = "Module"
                 /\ try_resolve_downcast(result.module).some
         THEN ReferencedAssetSome(try_resolve_downcast(result.module).value)
         ELSE from_resolve_result(Tail(primary))

\* ImportAnnotations::chunking_type(): Option<&str>
ChunkingAnnotations ==
    {None, Some("parallel"), Some("none"), Some("bogus")}

\* ImportAnnotations::transition(): Option<&str>
TransitionAnnotations == {None, Some("client")}

\* ImportAnnotations: the two annotations this code reads
ImportAnnotations ==
    [chunking_type : ChunkingAnnotations,
     transition : TransitionAnnotations]

\* The ResolveOrigin of the importing module, and the origin it becomes
\* under a transition
Origin == [path |-> "/index.js", transition |-> None]

with_transition(origin, transition) ==
    [origin EXCEPT !.transition = Some(transition)]

\* Option<Vc<ModulePart>>: the whole module, or one export of it
ExportNames == {None, Some("x")}

\* EsmAssetReference: its fields
EsmAssetReferences ==
    [origin : {Origin},
     request : Requests,
     issue_source : {None},
     annotations : ImportAnnotations,
     export_name : ExportNames,
     import_externals : BOOLEAN]

\* EsmAssetReference::get_origin
get_origin(this) ==
    IF this.annotations.transition.some
    THEN with_transition(this.origin, this.annotations.transition.value)
    ELSE this.origin

\* The resolve task esm_resolve names: what is asked of the resolver
esm_resolve(origin, request, ty, issue_severity, issue_source) ==
    [origin |-> origin,
     request |-> request,
     ty |-> ty,
     issue_severity |-> issue_severity,
     issue_source |-> issue_source]

\* the esm_resolve call of resolve_reference
resolve_reference_task(this) ==
    LET ty == IF this.export_name.some
              THEN [subtype |-> "ImportPart", part |-> this.export_name]
              ELSE [subtype |-> "Import", part |-> None]
    IN esm_resolve(get_origin(this), this.request, ty, "Error",
                   this.issue_source)

\* ModuleReference::resolve_reference of an EsmAssetReference. `resolver`
\* is the resolver as it answers when the result is read: a function from
\* the resolve task that is read to its result. Two reads are two
\* resolvers: the result of a task can change between them.
resolve_reference(this, resolver) == resolver[resolve_reference_task(this)]

\* EsmAssetReference::get_referenced_asset
get_referenced_asset(this, resolver) ==
    from_resolve_result(resolve_reference(this, resolver))

\* The resolvers that answer the resolve task of a reference with one of
\* `answers`
ResolversOf(this, answers) ==
    {[task \in {resolve_reference_task(this)} |-> answer] :
        answer \in answers}

ParallelInheritAsync == "ParallelInheritAsync"

\* chunking_type falling back to the default on an unknown annotation
chunking_type_lenient(this) ==
    IF this.annotations.chunking_type.some
       /\ this.annotations.chunking_type.value = "none"
    THEN Ok(None)
    ELSE Ok(Some(ParallelInheritAsync))

chunking_type(this) ==
    LET annotation == this.annotations.chunking_type IN
    IF annotation.some
    THEN CASE annotation.value = "parallel" ->
                 Ok(Some(ParallelInheritAsync))
           [] annotation.value = "none" -> Ok(None)
           [] OTHER ->
                 Err([error |-> "unknown chunking_type: ",
                      chunking_type |-> annotation.value])
    ELSE Ok(Some(ParallelInheritAsync))

ESM_HOISTING_LOCATION == mangle(<<"ecmascript hoisting location">>)

HoistingLocationStmt == ExprStmt(LitStr(ESM_HOISTING_LOCATION))

\* the `if let Stmt::Expr(ExprStmt { expr: box Expr::Lit(Lit::Str(s)) })`
\* test of both arms of insert_hoisted_stmt
IsHoistingLocation(stmt) ==
    /\ stmt.type = "Expr"
    /\ "lit" \in DOMAIN stmt.expr
    /\ stmt.expr.lit = "Str"
    /\ stmt.expr.str = ESM_HOISTING_LOCATION

IsHoistingLocationItem(item) ==
    item.item = "Stmt" /\ IsHoistingLocation(item.stmt)

\* the module arm without the has_stmt check
insert_hoisted_stmt_module_no_dedup(body, stmt) ==
    LET pos == position(body, IsHoistingLocationItem) IN
    IF pos.some
    THEN VecInsert(body, pos.value, ModuleItemStmt(stmt))
    ELSE <<ModuleItemStmt(stmt), ModuleItemStmt(HoistingLocationStmt)>>
         \o body

insert_hoisted_stmt_module(body, stmt) ==
    LET pos == position(body, IsHoistingLocationItem) IN
    IF pos.some
    THEN LET IsStmt(item) == item.item = "Stmt" /\ stmt = item.stmt
             has_stmt == any(SubSeq(body, 1, pos.value), IsStmt)
         IN IF ~has_stmt
            THEN VecInsert(body, pos.value, ModuleItemStmt(stmt))
            ELSE body
    ELSE <<ModuleItemStmt(stmt), ModuleItemStmt(HoistingLocationStmt)>>
         \o body

\* the script arm with the has_stmt check of the module arm
insert_hoisted_stmt_script_dedup(body, stmt) ==
    LET pos == position(body, IsHoistingLocation) IN
    IF pos.some
    THEN LET IsStmt(item) == stmt = item IN
         IF ~any(SubSeq(body, 1, pos.value), IsStmt)
         THEN VecInsert(body, pos.value, stmt)
         ELSE body
    ELSE VecInsert(VecInsert(body, 0, HoistingLocationStmt), 0, stmt)

insert_hoisted_stmt_script(body, stmt) ==
    LET pos == position(body, IsHoistingLocation) IN
    IF pos.some
    THEN VecInsert(body, pos.value, stmt)
    ELSE VecInsert(VecInsert(body, 0, HoistingLocationStmt), 0, stmt)

insert_hoisted_stmt(prog, stmt) ==
    IF prog.kind = "Module"
    THEN ProgramModule(insert_hoisted_stmt_module(prog.body, stmt))
    ELSE ProgramScript(insert_hoisted_stmt_script(prog.body, stmt))

\* The visitors a code generation returns: closures over the statement (or
\* the identifiers) that run on the program later
VisitInsertHoisted(stmt) == [visit |-> "insert_hoisted_stmt", stmt |-> stmt]

ThrowStmt(request) == ExprStmt(throw_module_not_found_expr(request))

ModuleIdLit(id) ==
    IF id.id = "String" THEN LitStr(<<id.s>>) ELSE LitNum(id.n)

ImportStmt(ident, id) ==
    VarCallStmt(ident, "__turbopack_import__", <<ModuleIdLit(id)>>)

\* ExternalStmt with the two runtime helpers exchanged
ExternalStmt_swapped(ident, request, import_externals) ==
    IF ~import_externals
    THEN VarCallStmt(ident, "__turbopack_external_import__",
                     <<LitStr(<<request>>)>>)
    ELSE VarCallStmt(ident, "__turbopack_external_require__",
                     <<LitStr(<<request>>), LitBool(TRUE)>>)

ExternalStmt(ident, request, import_externals) ==
    IF import_externals
    THEN VarCallStmt(ident, "__turbopack_external_import__",
                     <<LitStr(<<request>>)>>)
    ELSE VarCallStmt(ident, "__turbopack_external_require__",
                     <<LitStr(<<request>>), LitBool(TRUE)>>)

CodeGenerationBody(this, resolver, resolver_later, chunking_context, chunking, check_env) ==
    IF is_unresolveable_ref(resolve_reference(this, resolver))
    THEN Ok(<<VisitInsertHoisted(ThrowStmt(request_to_string(this.request)))>>)
    ELSE IF chunking.value.some
    THEN LET referenced_asset == get_referenced_asset(this, resolver_later)
             ident == get_ident(referenced_asset)
         IN IF ~ident.some THEN Ok(<<>>)
            ELSE IF referenced_asset.asset = "Some"
            THEN LET id == chunk_item_id(chunking_context,
                               as_chunk_item(referenced_asset.placeable))
                 IN Ok(<<VisitInsertHoisted(ImportStmt(ident.value, id))>>)
            ELSE IF check_env /\ ~chunking_context.supports_commonjs_externals
            THEN Err([error |-> "the chunking context does not support external modules (request: ",
                      request |-> referenced_asset.request])
            ELSE Ok(<<VisitInsertHoisted(
                        ExternalStmt(ident.value, referenced_asset.request,
                                     this.import_externals))>>)
    ELSE Ok(<<>>)

\* code_generation returning early for a reference that is not chunked,
\* before it looks at the resolve result
EsmAssetReference_code_generation_chunking_first(this, resolver, resolver_later, chunking_context) ==
    LET chunking == chunking_type(this) IN
    IF ~chunking.ok THEN Err(chunking.err)
    ELSE IF ~chunking.value.some THEN Ok(<<>>)
    ELSE CodeGenerationBody(this, resolver, resolver_later, chunking_context,
                            chunking, TRUE)

\* code_generation without the supports_commonjs_externals check
EsmAssetReference_code_generation_no_env_check(this, resolver, resolver_later, chunking_context) ==
    LET chunking == chunking_type(this) IN
    IF ~chunking.ok THEN Err(chunking.err)
    ELSE CodeGenerationBody(this, resolver, resolver_later, chunking_context,
                            chunking, FALSE)

\* Whether code_generation goes on to read get_referenced_asset, after
\* `resolver` answered its resolve_reference: the chunking type is read, the
\* reference is resolvable and it is chunked
awaits_referenced_asset(this, resolver) ==
    LET chunking == chunking_type(this) IN
    /\ chunking.ok
    /\ ~is_unresolveable_ref(resolve_reference(this, resolver))
    /\ chunking.value.some

\* EsmAssetReference::code_generation. It reads the resolve result twice:
\* `resolver` answers self.resolve_reference().await, `resolver_later`
\* answers self.get_referenced_asset().await, which a code generation that
\* returns before it never reads.
EsmAssetReference_code_generation(this, resolver, resolver_later, chunking_context) ==
    LET chunking == chunking_type(this) IN
    IF ~chunking.ok THEN Err(chunking.err)
    ELSE IF is_unresolveable_ref(resolve_reference(this, resolver))
    THEN Ok(<<VisitInsertHoisted(ThrowStmt(request_to_string(this.request)))>>)
    ELSE IF chunking.value.some
    THEN LET referenced_asset == get_referenced_asset(this, resolver_later)
             ident == get_ident(referenced_asset)
         IN IF ~ident.some THEN Ok(<<>>)
            ELSE IF referenced_asset.asset = "Some"
            THEN LET id == chunk_item_id(chunking_context,
                               as_chunk_item(referenced_asset.placeable))
                 IN Ok(<<VisitInsertHoisted(ImportStmt(ident.value, id))>>)
            ELSE IF ~chunking_context.supports_commonjs_externals
            THEN Err([error |-> "the chunking context does not support external modules (request: ",
                      request |-> referenced_asset.request])
            ELSE Ok(<<VisitInsertHoisted(
                        ExternalStmt(ident.value, referenced_asset.request,
                                     this.import_externals))>>)
    ELSE Ok(<<>>)

-----------------------------------------------------------------------------
(* references/async_module.rs *)

\* What the resolver answers for the resolve task of a reference of an
\* AsyncModule: an ignored entry, a placeable module, or the external marker
\* of the request
ResolverAnswers(request) ==
    {<<ItemIgnore>>, <<ItemExternal(request)>>}
    \cup {<<ItemModule(m)>> : m \in Placeable}

AsyncModuleReference(request, chunking_type_annotation, export_name) ==
    [origin |-> Origin,
     request |-> request,
     issue_source |-> None,
     annotations |-> [chunking_type |-> chunking_type_annotation,
                      transition |-> None],
     export_name |-> export_name,
     import_externals |-> FALSE]

\* The references an AsyncModule holds, an IndexSet, so no reference twice:
\* the imports of ./a and of its export x, and an import of fs that is not
\* chunked
AsyncModuleReferences ==
    {AsyncModuleReference("./a", None, None),
     AsyncModuleReference("./a", None, Some("x")),
     AsyncModuleReference("fs", Some("none"), None)}

\* The resolvers that answer the references of an AsyncModule, one for each
\* reference: every reference is read at an await of its own
RECURSIVE ResolversOfAll(_)
ResolversOfAll(references) ==
    IF references = <<>> THEN {<<>>}
    ELSE LET this == Head(references) IN
         {<<resolver>> \o rest :
             resolver \in ResolversOf(this, ResolverAnswers(this.request)),
             rest \in ResolversOfAll(Tail(references))}

IsIndexSet(s) == \A i, j \in DOMAIN s : s[i] = s[j] => i = j

\* AsyncModule: the fields this code reads
AsyncModules ==
    [references : {s \in SeqsUpTo(AsyncModuleReferences, MaxRefs) :
                      IsIndexSet(s)},
     has_top_level_await : BOOLEAN,
     import_externals : BOOLEAN]

\* AsyncModuleInfo.referenced_async_modules: chunk items
AsyncModuleInfos ==
    {[referenced_async_modules |-> {as_chunk_item(m) : m \in ms}] :
        ms \in SUBSET Placeable}

\* try_flat_join over Options: the Some values, in order
RECURSIVE try_flat_join(_)
try_flat_join(options) ==
    IF options = <<>> THEN <<>>
    ELSE (IF Head(options).some THEN <<Head(options).value>> ELSE <<>>)
         \o try_flat_join(Tail(options))

\* the closure passing over the references that are not chunked
async_ident_of_chunked_only(this, r, resolver, async_module_info) ==
    LET referenced_asset == get_referenced_asset(r, resolver) IN
    IF ~chunking_type(r).value.some THEN None
    ELSE IF referenced_asset.asset = "OriginalReferenceTypeExternal"
    THEN IF this.import_externals THEN get_ident(referenced_asset) ELSE None
    ELSE IF referenced_asset.asset = "Some"
            /\ as_chunk_item(referenced_asset.placeable)
                   \in async_module_info.referenced_async_modules
    THEN get_ident(referenced_asset)
    ELSE None

\* the closure get_async_idents maps over the references; `resolver` answers
\* the r.get_referenced_asset().await of this reference
async_ident_of(this, r, resolver, async_module_info) ==
    LET referenced_asset == get_referenced_asset(r, resolver) IN
    CASE referenced_asset.asset = "OriginalReferenceTypeExternal" ->
            IF this.import_externals
            THEN get_ident(referenced_asset)
            ELSE None
      [] referenced_asset.asset = "Some" ->
            LET chunk_item == as_chunk_item(referenced_asset.placeable) IN
            IF chunk_item \in async_module_info.referenced_async_modules
            THEN get_ident(referenced_asset)
            ELSE None
      [] OTHER -> None

\* AsyncModule::get_async_idents; resolvers[i] answers the read of
\* references[i]
get_async_idents(this, resolvers, async_module_info) ==
    LET reference_idents ==
            try_flat_join(
                [i \in DOMAIN this.references |->
                    async_ident_of(this, this.references[i], resolvers[i],
                                   async_module_info)])
    IN IndexSet_from_iter(reference_idents)

\* is_self_async without the import_externals test
is_self_async_any_external(this, resolvers) ==
    IF this.has_top_level_await THEN TRUE
    ELSE LET matches ==
                 [i \in DOMAIN this.references |->
                     get_referenced_asset(this.references[i],
                                          resolvers[i]).asset
                         = "OriginalReferenceTypeExternal"]
             IsTrue(b) == b
         IN any(matches, IsTrue)

\* AsyncModule::is_self_async; resolvers[i] answers the read of
\* references[i]
is_self_async(this, resolvers) ==
    IF this.has_top_level_await THEN TRUE
    ELSE /\ this.import_externals
         /\ LET matches ==
                    [i \in DOMAIN this.references |->
                        get_referenced_asset(this.references[i],
                                             resolvers[i]).asset
                            = "OriginalReferenceTypeExternal"]
                IsTrue(b) == b
            IN any(matches, IsTrue)

AsyncModuleOptions(has_top_level_await) ==
    [has_top_level_await |-> has_top_level_await]

\* module_options reading is_self_async (with every request external)
\* instead of the flag
AsyncModule_module_options_self_async(this, async_module_info) ==
    IF ~async_module_info.some THEN None
    ELSE Some(AsyncModuleOptions(
             is_self_async(this,
                 [i \in DOMAIN this.references |->
                     [task \in {resolve_reference_task(this.references[i])}
                         |-> <<ItemExternal("fs")>>]])))

\* AsyncModule::module_options
AsyncModule_module_options(this, async_module_info) ==
    IF ~async_module_info.some THEN None
    ELSE Some(AsyncModuleOptions(this.has_top_level_await))

\* OptionAsyncModule::module_options
OptionAsyncModule_module_options(this, async_module_info) ==
    IF this.some
    THEN AsyncModule_module_options(this.value, async_module_info)
    ELSE None

VisitAsyncDependencyHandler(idents) ==
    [visit |-> "add_async_dependency_handler", idents |-> idents]

\* AsyncModule::code_generation
AsyncModule_code_generation(this, resolvers, async_module_info) ==
    IF async_module_info.some
    THEN LET async_idents ==
                 get_async_idents(this, resolvers, async_module_info.value)
         IN IF async_idents # <<>>
            THEN Ok(<<VisitAsyncDependencyHandler(async_idents)>>)
            ELSE Ok(<<>>)
    ELSE Ok(<<>>)

\* var __turbopack_async_dependencies__ =
\*     __turbopack_handle_async_dependencies__([idents]);
AsyncDependenciesStmt(idents) ==
    VarCallStmt(<<"__turbopack_async_dependencies__">>,
                "__turbopack_handle_async_dependencies__",
                <<[array |-> idents]>>)

\* ([idents] = __turbopack_async_dependencies__.then ? ... : ...);
AsyncDestructureStmt(idents) ==
    ExprStmt([assign |-> [array_pat |-> idents],
              right |-> "__turbopack_async_dependencies__.then ? (await __turbopack_async_dependencies__)() : __turbopack_async_dependencies__"])

\* add_async_dependency_handler hoisting the re-destructuring first
add_async_dependency_handler_swapped(prog, idents) ==
    insert_hoisted_stmt(
        insert_hoisted_stmt(prog, AsyncDestructureStmt(idents)),
        AsyncDependenciesStmt(idents))

add_async_dependency_handler(prog, idents) ==
    insert_hoisted_stmt(
        insert_hoisted_stmt(prog, AsyncDependenciesStmt(idents)),
        AsyncDestructureStmt(idents))

-----------------------------------------------------------------------------
(* Running the visitors of a code generation on the program *)

ApplyVisitor(prog, visitor) ==
    IF visitor.visit = "insert_hoisted_stmt"
    THEN insert_hoisted_stmt(prog, visitor.stmt)
    ELSE add_async_dependency_handler(prog, visitor.idents)

\* the statements the visitor hands to insert_hoisted_stmt, in call order
VisitorStmts(visitor) ==
    IF visitor.visit = "insert_hoisted_stmt"
    THEN <<visitor.stmt>>
    ELSE <<AsyncDependenciesStmt(visitor.idents),
           AsyncDestructureStmt(visitor.idents)>>

RECURSIVE ApplyVisitors(_, _)
ApplyVisitors(prog, visitors) ==
    IF visitors = <<>> THEN prog
    ELSE ApplyVisitors(ApplyVisitor(prog, Head(visitors)), Tail(visitors))

RECURSIVE VisitorsStmts(_)
VisitorsStmts(visitors) ==
    IF visitors = <<>> THEN <<>>
    ELSE VisitorStmts(Head(visitors)) \o VisitorsStmts(Tail(visitors))

-----------------------------------------------------------------------------
(* Programs as parsed: no hoisting location in them *)

UseStrictStmt == ExprStmt(LitStr(<<"use strict">>))

UserImportStmt ==
    ImportStmt(get_ident_from_placeable("/a.js"), ChunkItemIds["/a.js"])

OriginalStmts == {UseStrictStmt, UserImportStmt}

OriginalModuleItems ==
    {ModuleItemStmt(s) : s \in OriginalStmts}
    \cup {ModuleItemDecl("export default")}

ParsedPrograms ==
    {ProgramModule(b) : b \in SeqsUpTo(OriginalModuleItems, MaxOriginal)}
    \cup {ProgramScript(b) : b \in SeqsUpTo(OriginalStmts, MaxOriginal)}

\* Statements the code generations hoist
HoistedStmts ==
    {ThrowStmt("./a"),
     UserImportStmt,
     ExternalStmt(mangle(<<"external ", "fs">>), "fs", TRUE)}

Idle == [op |-> "idle"]

-----------------------------------------------------------------------------
(* The reference's operations, each on arguments of its own *)

InitReference ==
    /\ call = Idle
    /\ program \in {ProgramModule(<<>>), ProgramScript(<<>>)}
    /\ original = program.body
    /\ inserted = <<>>

FromResolveResult ==
    \E resolved \in ResolveResults :
        /\ call = Idle
        /\ call' = [op |-> "from_resolve_result",
                    resolved |-> resolved,
                    result |-> from_resolve_result(resolved)]
        /\ UNCHANGED <<program, original, inserted>>

ChunkingType ==
    \E this \in EsmAssetReferences :
        /\ call = Idle
        /\ call' = [op |-> "chunking_type",
                    this |-> this,
                    result |-> chunking_type(this)]
        /\ UNCHANGED <<program, original, inserted>>

\* What the resolver answers for the resolve task of the reference that
\* generates code: nothing, or one entry of any kind
ReferenceAnswers == SeqsUpTo(ResolveItems, 1)

\* code_generation from its start to the first of: the error of the
\* chunking type, the return for an unresolvable reference, the return for a
\* reference that is not chunked, the await of get_referenced_asset
ReferenceCodeGeneration ==
    \E this \in EsmAssetReferences, chunking_context \in ChunkingContexts :
        \E resolver \in ResolversOf(this, ReferenceAnswers) :
            /\ call = Idle
            /\ call' = IF awaits_referenced_asset(this, resolver)
                       THEN [op |-> "EsmAssetReference::code_generation",
                             this |-> this,
                             chunking_context |-> chunking_context,
                             resolver |-> resolver,
                             pc |-> "get_referenced_asset"]
                       ELSE [op |-> "EsmAssetReference::code_generation",
                             this |-> this,
                             chunking_context |-> chunking_context,
                             resolver |-> resolver,
                             pc |-> "done",
                             visited |-> FALSE,
                             result |-> EsmAssetReference_code_generation(
                                            this, resolver, resolver,
                                            chunking_context)]
            /\ UNCHANGED <<program, original, inserted>>

\* code_generation from the await of get_referenced_asset to its end: the
\* resolver answers again, as it answers now
ReferenceCodeGenerationResume ==
    /\ call.op = "EsmAssetReference::code_generation"
    /\ call.pc = "get_referenced_asset"
    /\ \E resolver_later \in ResolversOf(call.this, ReferenceAnswers) :
          call' = [op |-> "EsmAssetReference::code_generation",
                   this |-> call.this,
                   chunking_context |-> call.chunking_context,
                   resolver |-> call.resolver,
                   resolver_later |-> resolver_later,
                   pc |-> "done",
                   visited |-> FALSE,
                   result |-> EsmAssetReference_code_generation(
                                  call.this, call.resolver, resolver_later,
                                  call.chunking_context)]
    /\ UNCHANGED <<program, original, inserted>>

\* The rewrite pass runs the visitors of the code generation on the
\* program, once
Visit ==
    /\ call.op \in {"EsmAssetReference::code_generation",
                    "AsyncModule::code_generation"}
    /\ "result" \in DOMAIN call
    /\ call.result.ok
    /\ call.result.value # <<>>
    /\ ~call.visited
    /\ program' = ApplyVisitors(program, call.result.value)
    /\ inserted' = inserted \o VisitorsStmts(call.result.value)
    /\ call' = [call EXCEPT !.visited = TRUE]
    /\ UNCHANGED original

\* The caller has read the result of the operation
Return ==
    /\ "result" \in DOMAIN call
    /\ inserted = <<>>
    /\ call' = Idle
    /\ UNCHANGED <<program, original, inserted>>

NextReference ==
    \/ FromResolveResult
    \/ ChunkingType
    \/ ReferenceCodeGeneration
    \/ ReferenceCodeGenerationResume
    \/ Return
    \/ Visit

SpecReference == InitReference /\ [][NextReference]_vars

-----------------------------------------------------------------------------
(* The async module's operations, each on arguments of its own *)

InitAsync ==
    /\ call = Idle
    /\ program \in {ProgramModule(<<>>), ProgramScript(<<>>)}
    /\ original = program.body
    /\ inserted = <<>>

GetAsyncIdents ==
    \E this \in AsyncModules, async_module_info \in AsyncModuleInfos :
        \E resolvers \in ResolversOfAll(this.references) :
            /\ call = Idle
            /\ call' = [op |-> "get_async_idents",
                        this |-> this,
                        resolvers |-> resolvers,
                        async_module_info |-> async_module_info,
                        result |-> get_async_idents(this, resolvers,
                                                    async_module_info)]
            /\ UNCHANGED <<program, original, inserted>>

IsSelfAsync ==
    \E this \in AsyncModules :
        \E resolvers \in ResolversOfAll(this.references) :
            /\ call = Idle
            /\ call' = [op |-> "is_self_async",
                        this |-> this,
                        resolvers |-> resolvers,
                        result |-> is_self_async(this, resolvers)]
            /\ UNCHANGED <<program, original, inserted>>

ModuleOptions ==
    \E this \in {None} \cup {Some(m) : m \in AsyncModules},
       async_module_info \in {None} \cup {Some(i) : i \in AsyncModuleInfos} :
        /\ call = Idle
        /\ call' = [op |-> "module_options",
                    this |-> this,
                    async_module_info |-> async_module_info,
                    result |-> OptionAsyncModule_module_options(
                                   this, async_module_info)]
        /\ UNCHANGED <<program, original, inserted>>

AsyncCodeGeneration ==
    \E this \in AsyncModules,
       async_module_info \in {None} \cup {Some(i) : i \in AsyncModuleInfos} :
        \E resolvers \in ResolversOfAll(this.references) :
            /\ call = Idle
            /\ call' = [op |-> "AsyncModule::code_generation",
                        this |-> this,
                        resolvers |-> resolvers,
                        async_module_info |-> async_module_info,
                        visited |-> FALSE,
                        result |-> AsyncModule_code_generation(
                                       this, resolvers, async_module_info)]
            /\ UNCHANGED <<program, original, inserted>>

\* The rewrite pass runs the visitor of an import reference of the module
\* before the visitors of the AsyncModule
VisitReferenceFirst ==
    /\ call.op = "AsyncModule::code_generation"
    /\ call.result.value # <<>>
    /\ inserted = <<>>
    /\ program' = insert_hoisted_stmt(program, UserImportStmt)
    /\ inserted' = <<UserImportStmt>>
    /\ UNCHANGED <<call, original>>

NextAsync ==
    \/ GetAsyncIdents
    \/ IsSelfAsync
    \/ ModuleOptions
    \/ AsyncCodeGeneration
    \/ Return
    \/ VisitReferenceFirst
    \/ Visit

SpecAsync == InitAsync /\ [][NextAsync]_vars

-----------------------------------------------------------------------------
(* insert_hoisted_stmt on a parsed program *)

InitHoist ==
    /\ call = Idle
    /\ program \in ParsedPrograms
    /\ original = program.body
    /\ inserted = <<>>

InsertHoistedStmt ==
    \E stmt \in HoistedStmts :
        /\ Len(inserted) < MaxInserts
        /\ program' = insert_hoisted_stmt(program, stmt)
        /\ inserted' = Append(inserted, stmt)
        /\ call' = [op |-> "insert_hoisted_stmt", stmt |-> stmt]
        /\ UNCHANGED original

NextHoist == InsertHoistedStmt

SpecHoist == InitHoist /\ [][NextHoist]_vars

-----------------------------------------------------------------------------
(* Claims about EsmAssetReference and ReferencedAsset, under SpecReference *)

\* a code generation of a reference that has run to its end
IsCodeGeneration ==
    /\ call.op = "EsmAssetReference::code_generation"
    /\ call.pc = "done"

\* the annotation of the reference of the call
ChunkingAnnotation == call.this.annotations.chunking_type

\* the resolve result the code generation read was unresolvable
IsUnresolvable ==
    is_unresolveable_ref(resolve_reference(call.this, call.resolver))

\* the classification of the reference: what get_referenced_asset answered
\* when the code generation read it, and, for a code generation that
\* returned before it, the classification of the resolve result it read
ReferencedAssetRead ==
    IF "resolver_later" \in DOMAIN call
    THEN from_resolve_result(resolve_reference(call.this, call.resolver_later))
    ELSE from_resolve_result(resolve_reference(call.this, call.resolver))

ValidAnnotations == {None, Some("parallel"), Some("none")}
ParallelAnnotations == {None, Some("parallel")}

ThrowVisitors(request) ==
    <<[visit |-> "insert_hoisted_stmt",
       stmt |-> [type |-> "Expr",
                 expr |-> [throw |-> "Cannot find module",
                           request |-> request]]]>>

\* C1 as stated: for every unresolvable reference and every value of the
\* chunking-type annotation, code_generation succeeds with exactly the one
\* mutation hoisting the module-not-found throw of the request.
C1_UnresolvableAlwaysThrows ==
    (IsCodeGeneration /\ IsUnresolvable)
        => /\ call.result.ok
           /\ call.result.value = ThrowVisitors(call.this.request)

\* C1 amended: for every unresolvable reference whose chunking-type
\* annotation is absent, "parallel" or "none", code_generation succeeds with
\* exactly the one mutation hoisting the module-not-found throw of the
\* request; with any other annotation value it fails with the
\* unknown-chunking_type error and returns no mutation.
C1_UnresolvableThrowsWhenAnnotationValid ==
    (IsCodeGeneration /\ IsUnresolvable)
        => IF ChunkingAnnotation \in ValidAnnotations
           THEN /\ call.result.ok
                /\ call.result.value = ThrowVisitors(call.this.request)
           ELSE /\ ~call.result.ok
                /\ call.result.err =
                       [error |-> "unknown chunking_type: ",
                        chunking_type |-> ChunkingAnnotation.value]

\* An unresolvable reference annotated chunking_type = "none" has generated
\* its one throw mutation, and the rewrite pass has hoisted it.
C1_Witness ==
    /\ IsCodeGeneration
    /\ IsUnresolvable
    /\ ChunkingAnnotation = Some("none")
    /\ call.result.ok
    /\ Len(call.result.value) = 1
    /\ call.visited
    /\ inserted = <<ThrowStmt(call.this.request)>>

UnsupportedExternal(request) ==
    [error |-> "the chunking context does not support external modules (request: ",
     request |-> request]

IsExternalWithoutSupport ==
    /\ IsCodeGeneration
    /\ ReferencedAssetRead.asset = "OriginalReferenceTypeExternal"
    /\ ~call.chunking_context.supports_commonjs_externals

\* C2 as stated: every reference that classifies as External while the
\* environment lacks the capability makes code_generation fail with the
\* unsupported-feature error naming the request, with no mutation.
C2_ExternalWithoutSupportFails ==
    IsExternalWithoutSupport
        => /\ ~call.result.ok
           /\ call.result.err =
                  UnsupportedExternal(ReferencedAssetRead.request)

\* C2 amended: every resolvable reference that classifies as External and
\* whose chunking policy is ParallelInheritAsync (annotation absent or
\* "parallel") makes code_generation fail, while the environment lacks the
\* capability, with the unsupported-feature error naming the request the
\* external marker carries, and no mutation; under the policy Excluded
\* (annotation "none") code_generation succeeds with no mutation instead.
C2_ParallelExternalWithoutSupportFails ==
    (IsExternalWithoutSupport /\ ~IsUnresolvable)
        => /\ ChunkingAnnotation \in ParallelAnnotations
              => /\ ~call.result.ok
                 /\ call.result.err =
                        UnsupportedExternal(ReferencedAssetRead.request)
           /\ ChunkingAnnotation = Some("none")
              => call.result = Ok(<<>>)

\* A parallel reference that resolved to a module when code_generation read
\* its resolve result, and to an external when it read the referenced
\* asset, in an environment without the capability, has failed.
C2_Witness ==
    /\ IsExternalWithoutSupport
    /\ ChunkingAnnotation = Some("parallel")
    /\ resolve_reference(call.this, call.resolver) = <<ItemModule("/a.js")>>
    /\ "resolver_later" \in DOMAIN call
    /\ resolve_reference(call.this, call.resolver_later)
           = <<ItemExternal("fs")>>
    /\ ~call.result.ok

\* C3: a resolvable reference whose code_generation does not fail yields at
\* most one mutation: none under the policy Excluded or when Unclassified;
\* under ParallelInheritAsync, for Internal the hoist of
\* var <ident> = __turbopack_import__(<id of the target's chunk item>), for
\* External the hoist of __turbopack_external_import__(<request>) when the
\* reference's import_externals is true and of
\* __turbopack_external_require__(<request>, true) when it is false.
C3_ResolvableMutation ==
    (IsCodeGeneration /\ ~IsUnresolvable /\ call.result.ok)
        => LET asset == ReferencedAssetRead
               excluded == ChunkingAnnotation = Some("none")
               hoist(stmt) == <<[visit |-> "insert_hoisted_stmt",
                                 stmt |-> stmt]>>
               var(name, callee, args) ==
                   [type |-> "Var", name |-> name, callee |-> callee,
                    args |-> args]
           IN /\ Len(call.result.value) <= 1
              /\ (excluded \/ asset.asset = "None")
                    => call.result.value = <<>>
              /\ (~excluded /\ asset.asset = "Some")
                    => LET id == call.chunking_context.ids[asset.placeable] IN
                       call.result.value =
                           hoist(var(get_ident(asset).value,
                                     "__turbopack_import__",
                                     <<IF id.id = "String"
                                       THEN LitStr(<<id.s>>)
                                       ELSE LitNum(id.n)>>))
              /\ (~excluded /\ asset.asset = "OriginalReferenceTypeExternal")
                    => call.result.value =
                           hoist(IF call.this.import_externals
                                 THEN var(get_ident(asset).value,
                                          "__turbopack_external_import__",
                                          <<LitStr(<<asset.request>>)>>)
                                 ELSE var(get_ident(asset).value,
                                          "__turbopack_external_require__",
                                          <<LitStr(<<asset.request>>),
                                            LitBool(TRUE)>>))

\* A parallel reference to an external with import_externals false has
\* generated the __turbopack_external_require__ import.
C3_Witness ==
    /\ IsCodeGeneration
    /\ ChunkingAnnotation = None
    /\ ~call.this.import_externals
    /\ "resolver_later" \in DOMAIN call
    /\ ReferencedAssetRead.asset = "OriginalReferenceTypeExternal"
    /\ call.result.ok
    /\ Len(call.result.value) = 1
    /\ call.result.value[1].stmt.callee = "__turbopack_external_require__"

\* C8: chunking_type returns ParallelInheritAsync when the annotation is
\* absent or "parallel", None (Excluded) when it is "none", and for every
\* other value fails with an error holding that value; nothing but the
\* annotation decides it.
C8_ChunkingType ==
    call.op = "chunking_type"
        => LET annotation == call.this.annotations.chunking_type IN
           /\ annotation \in ParallelAnnotations
                 => call.result = Ok(Some("ParallelInheritAsync"))
           /\ annotation = Some("none") => call.result = Ok(None)
           /\ annotation \notin ValidAnnotations
                 => /\ ~call.result.ok
                    /\ call.result.err.chunking_type = annotation.value

\* chunking_type has failed on the annotation "bogus".
C8_Witness ==
    /\ call.op = "chunking_type"
    /\ call.this.annotations.chunking_type = Some("bogus")
    /\ ~call.result.ok
    /\ call.result.err.chunking_type = "bogus"

MatchesClassifier(entry) ==
    \/ entry.item = "OriginalReferenceTypeExternal"
    \/ entry.item = "Module" /\ entry.module \in Placeable

\* C9: from_resolve_result is decided by the first entry, in the supplied
\* order, that is an external marker or a module that downcasts to a
\* placeable module: External(request) for the former, Some(module) for the
\* latter; every other entry is skipped, later matching entries change
\* nothing, and the result is None exactly when no entry matches.
C9_FirstMatchDecides ==
    call.op = "from_resolve_result"
        => LET primary == call.resolved
               hits == {i \in 1..Len(primary) : MatchesClassifier(primary[i])}
           IN /\ hits = {} <=> call.result = [asset |-> "None"]
              /\ \A i \in hits :
                    (\A j \in hits : i <= j)
                        => call.result =
                              IF primary[i].item = "Module"
                              THEN [asset |-> "Some",
                                    placeable |-> primary[i].module]
                              ELSE [asset |-> "OriginalReferenceTypeExternal",
                                    request |-> primary[i].request]

\* A module that is not placeable was skipped, and the placeable module
\* after it decided the result.
C9_Witness ==
    /\ call.op = "from_resolve_result"
    /\ call.resolved = <<ItemModule("/style.css"), ItemModule("/b.js")>>
    /\ call.result = ReferencedAssetSome("/b.js")

-----------------------------------------------------------------------------
(* Claims about AsyncModule, under SpecAsync *)

\* the classification of the i-th reference of the call, as the resolver
\* answered when the operation read it
Classification(i) ==
    from_resolve_result(
        resolve_reference(call.this.references[i], call.resolvers[i]))

\* the i-th reference contributes an identifier to the async identifiers
Qualifies(i) ==
    LET asset == Classification(i) IN
    \/ /\ asset.asset = "OriginalReferenceTypeExternal"
       /\ call.this.import_externals
    \/ /\ asset.asset = "Some"
       /\ [chunk_item |-> asset.placeable]
              \in call.async_module_info.referenced_async_modules

IdentOf(i) == get_ident(Classification(i)).value

Min(S) == CHOOSE i \in S : \A j \in S : i <= j

\* C4: get_async_idents returns exactly the identifiers of the references
\* that are External with the descriptor's import_externals true or Internal
\* with the target's chunk item in the graph-wide async set, whatever the
\* reference's chunking annotation; in reference insertion order, each
\* identifier once, at its first occurrence.
C4_AsyncIdents ==
    call.op = "get_async_idents"
        => LET result == call.result
               qualifying == {i \in DOMAIN call.this.references :
                                 Qualifies(i)}
               first(ident) == Min({i \in qualifying : IdentOf(i) = ident})
           IN /\ Range(result) = {IdentOf(i) : i \in qualifying}
              /\ \A i, j \in DOMAIN result : result[i] = result[j] => i = j
              /\ \A i, j \in DOMAIN result :
                    i < j => first(result[i]) < first(result[j])

\* Three references have contributed two identifiers: the import of ./a, a
\* reference annotated chunking_type = "none" to an external, and the import
\* of the export x of ./a, which repeats the identifier of the first and is
\* collapsed into it, across the identifier between them.
C4_Witness ==
    /\ call.op = "get_async_idents"
    /\ call.this.import_externals
    /\ Len(call.this.references) = 3
    /\ call.this.references[2].annotations.chunking_type = Some("none")
    /\ call.this.references[2].request = "fs"
    /\ Classification(1) = ReferencedAssetSome("/a.js")
    /\ Classification(2) = ReferencedAssetExternal("fs")
    /\ Classification(3) = ReferencedAssetSome("/a.js")
    /\ call.result = <<mangle(<<"imported module ", "/a.js">>),
                       mangle(<<"external ", "fs">>)>>

\* C5: is_self_async is true exactly when has_top_level_await is true, or
\* import_externals is true and some reference classifies as External; the
\* graph-wide async set is no argument of it.
C5_IsSelfAsync ==
    call.op = "is_self_async"
        => call.result
              = (\/ call.this.has_top_level_await
                 \/ /\ call.this.import_externals
                    /\ \E i \in DOMAIN call.this.references :
                          Classification(i).asset
                              = "OriginalReferenceTypeExternal")

\* A module without top-level await is self-async through an external
\* reference.
C5_Witness ==
    /\ call.op = "is_self_async"
    /\ ~call.this.has_top_level_await
    /\ call.this.import_externals
    /\ Len(call.this.references) = 2
    /\ Classification(1).asset = "Some"
    /\ call.result = TRUE

\* C6: AsyncModule::code_generation returns exactly one mutation when a
\* graph-wide async set is supplied and the async identifiers are not
\* empty, and none otherwise; run on the program, the mutation hoists the
\* __turbopack_async_dependencies__ declaration and then the
\* re-destructuring, both listing the async identifiers in their order, so
\* that the body holds the declaration, then the re-destructuring, then the
\* hoisting location.
C6_AsyncCodeGeneration ==
    call.op = "AsyncModule::code_generation"
        => LET info == call.async_module_info
               idents == IF info.some
                         THEN get_async_idents(call.this, call.resolvers,
                                               info.value)
                         ELSE <<>>
               decl == [type |-> "Var",
                        name |-> <<"__turbopack_async_dependencies__">>,
                        callee |-> "__turbopack_handle_async_dependencies__",
                        args |-> <<[array |-> idents]>>]
               destructure == AsyncDestructureStmt(idents)
               before == IF Len(inserted) = 3 THEN <<inserted[1]>> ELSE <<>>
               hoisted ==
                   before \o <<decl, destructure, HoistingLocationStmt>>
           IN /\ call.result.ok
              /\ call.result.value =
                    IF info.some /\ idents # <<>>
                    THEN <<[visit |-> "add_async_dependency_handler",
                            idents |-> idents]>>
                    ELSE <<>>
              /\ call.visited
                    => /\ inserted = before \o <<decl, destructure>>
                       /\ program.body =
                             IF program.kind = "Module"
                             THEN [i \in DOMAIN hoisted |->
                                      ModuleItemStmt(hoisted[i])]
                                  \o original
                             ELSE hoisted \o original

\* The mutation for two async identifiers has been run on a script.
C6_Witness ==
    /\ call.op = "AsyncModule::code_generation"
    /\ Len(call.result.value) = 1
    /\ Len(call.result.value[1].idents) = 2
    /\ call.visited
    /\ program.kind = "Script"
    /\ Len(program.body) = 4
    /\ program.body[1] = UserImportStmt
    /\ program.body[4] = HoistingLocationStmt

\* C7: module_options is none when no graph-wide async set is supplied or
\* the descriptor is absent, and otherwise {has_top_level_await} with the
\* descriptor's own flag, whatever its references and its import_externals
\* flag are.
C7_ModuleOptions ==
    call.op = "module_options"
        => call.result =
              IF call.this.some /\ call.async_module_info.some
              THEN [some |-> TRUE,
                    value |-> [has_top_level_await |->
                                  call.this.value.has_top_level_await]]
              ELSE [some |-> FALSE]

\* A descriptor with top-level await and no reference, with an async set
\* supplied, has got {has_top_level_await: true}.
C7_Witness ==
    /\ call.op = "module_options"
    /\ call.this.some
    /\ call.this.value.has_top_level_await
    /\ call.this.value.references = <<>>
    /\ call.async_module_info.some
    /\ call.result = Some([has_top_level_await |-> TRUE])

-----------------------------------------------------------------------------
(* Claims about insert_hoisted_stmt, under SpecHoist *)

\* the elements of s, each once, where it first occurs
RECURSIVE Distinct(_)
Distinct(s) ==
    IF s = <<>> THEN <<>>
    ELSE LET init == SubSeq(s, 1, Len(s) - 1)
             last == s[Len(s)]
         IN IF \E i \in DOMAIN init : init[i] = last
            THEN Distinct(init)
            ELSE Append(Distinct(init), last)

\* C10: on a module body that held no hoisting location, after any
\* insert_hoisted_stmt calls the body is the distinct inserted statements in
\* the order of their first insertion, then the one hoisting location, then
\* the original items as they were; a statement inserted again changes
\* nothing.
C10_ModuleHoistOrder ==
    (program.kind = "Module" /\ inserted # <<>>)
        => LET stmts == Distinct(inserted) IN
           program.body =
               [i \in 1..Len(stmts) |-> [item |-> "Stmt", stmt |-> stmts[i]]]
               \o <<[item |-> "Stmt", stmt |-> HoistingLocationStmt]>>
               \o original

\* S, S, T inserted into an empty module body: [S, T, hoisting location].
C10_Witness ==
    /\ program.kind = "Module"
    /\ original = <<>>
    /\ Len(inserted) = 3
    /\ inserted[1] = inserted[2]
    /\ inserted[3] # inserted[1]
    /\ program.body = <<ModuleItemStmt(inserted[1]),
                        ModuleItemStmt(inserted[3]),
                        ModuleItemStmt(HoistingLocationStmt)>>

\* C11: on a script body that held no hoisting location, after any
\* insert_hoisted_stmt calls the body is every inserted statement in call
\* order, repeats kept, then the one hoisting location, then the original
\* statements as they were; the first call puts its statement at the front,
\* before the hoisting location.
C11_ScriptHoistOrder ==
    (program.kind = "Script" /\ inserted # <<>>)
        => /\ program.body
                 = inserted
                   \o <<[type |-> "Expr",
                         expr |-> [lit |-> "Str",
                                   str |-> ESM_HOISTING_LOCATION]]>>
                   \o original
           /\ Len(inserted) = 1
                 => /\ program.body[1] = inserted[1]
                    /\ IsHoistingLocation(program.body[2])

\* S, S inserted into a script that held statements: both copies of S, the
\* hoisting location, the original statements.
C11_Witness ==
    /\ program.kind = "Script"
    /\ original # <<>>
    /\ Len(inserted) = 2
    /\ inserted[1] = inserted[2]
    /\ program.body = <<inserted[1], inserted[1], HoistingLocationStmt>>
                      \o original

====
